---- MODULE Spec2Model ----
(***************************************************************************)
(* A model of the girc client (client.go as found in src/modes.go, lines   *)
(* 477-1135): the connection / reconnection lifecycle, the goroutines it   *)
(* starts (readLoop, Loop), the outbound operations and the WHOWAS         *)
(* request/response wait.  Every statement of the Go code that reads or    *)
(* writes shared memory is one step of the task that executes it; no lock  *)
(* protects c.state.reconnecting, c.state.hasQuit, c.state.conn, c.tries   *)
(* or the c.state pointer itself, so the steps of different tasks          *)
(* interleave freely.                                                      *)
(***************************************************************************)
EXTENDS Integers, Sequences, FiniteSets, TLC

(***************************************************************************)
(* Bounds of the model.                                                    *)
(***************************************************************************)
\* calls of the public API the program makes in one behaviour
MaxCalls == 2
\* largest Config.MaxRetries tried
MaxRetriesBound == 2
\* events the server sends in one behaviour
MaxEvents == 2

(***************************************************************************)
(* Tasks: two goroutines of the program using the client, the readLoop     *)
(* goroutine started by Connect, and the goroutine that runs Loop.         *)
(***************************************************************************)
Caller == "u1"
Users == {Caller, "u2"}
Readers == {"r1"}
LoopTask == "loop"
Tasks == Users \cup Readers \cup {LoopTask}

\* Config.ReconnectDelay floor, in seconds (10 * time.Second)
MinReconnectDelay == 10
\* Config.Port range accepted by Connect
MinPort == 21
MaxPort == 65535
\* capacity of the Events channel
EventsCap == 100
\* the wait of Whowas, in seconds (time.Second * 2)
TimeoutSeconds == 2

NoErr == "nil"
ErrNotConnected == "ErrNotConnected"
ErrAlreadyConnecting == "ErrAlreadyConnecting"
ErrInvalidTarget == "ErrInvalidTarget"
ErrCallbackTimedout == "ErrCallbackTimedout"

VARIABLES
    config,     \* Client.Config
    st,         \* *Client.state, the throw-away session state
    tries,      \* Client.tries
    events,     \* Client.Events: the queued events
    evClosed,   \* Client.Events has been closed
    pc,         \* per task: the statement it is at
    stk,        \* per task: return labels of the enclosing calls
    op,         \* per task: the API operation it is in
    arg,        \* per task: validity of the argument of that call
    was,        \* per task: IsConnected() when that call was made
    rv,         \* per task: value returned by the last call that returned
    err,        \* per task: Reconnect's local err
    held,       \* per task: the event in hand (decoded by readLoop,
                \*           received by Loop)
    did,        \* per task: what the current API call / goroutine has done
                \*           so far, in order: fields written, transport
                \*           opened or closed, commands sent, sleeps
    calls,      \* API calls made so far
    net,        \* the network: "up", or "down" once it has gone away
    served,     \* events the server has sent so far
    crashed,    \* a goroutine panicked: the process is gone
    spawned,    \* readLoop goroutines started that have not run yet
    reg,        \* Client.Callbacks: the registered background handlers
    nextId,     \* next handler identifier the registry hands out
    todo,       \* handlers the running RunCallbacks still has to invoke
    whoDone,    \* per Whowas call: its completion channel
    mu,         \* per Whowas call: its mutex is held
    whoEvents,  \* per Whowas call: the reply events collected
    who,        \* per task: the handler ids of its Whowas call
    wres,       \* per task: what its Whowas call returned
    cmodes,     \* Channel.Modes of the tracked channel: a CModes
    perms,      \* User.Perms of the tracked user: a UserPerms
    inp,        \* arguments of the last call into the mode engine
    parsed,     \* []CMode that the last parse returned
    channels,   \* the keys of c.state.channels
    chanOut,    \* per task: the slice its Channels call fills
    slept       \* per task: the delays its Reconnect has slept, in order

vars == <<config, st, tries, events, evClosed, pc, stk, op, arg, was, rv, err,
          held, did, calls, net, served, crashed, spawned, reg, nextId, todo,
          whoDone, mu, whoEvents, who, wres, cmodes, perms, inp,
          parsed, channels, chanOut, slept>>

(***************************************************************************)
(* newState(): a zero-valued session state.                                *)
(***************************************************************************)
newState ==
    [connected |-> FALSE, reconnecting |-> FALSE, hasQuit |-> FALSE,
     conn |-> "nil", connTime |-> FALSE]

\* handler identifiers: a Whowas call registers two handlers
Ids == 1..(2 * MaxCalls)

\* the nickname the Whowas calls of the model ask for
Nick == "ghost"

\* inbound events: command, the nickname echoed in Params[1], the ident
NilEvent == [cmd |-> "nil", nick |-> "", ident |-> ""]
WhowasReplies ==
    {[cmd |-> "RPL_WHOWASUSER", nick |-> Nick, ident |-> "i1"],
     [cmd |-> "RPL_WHOWASUSER", nick |-> "other", ident |-> "i2"],
     [cmd |-> "RPL_ENDOFWHOWAS", nick |-> Nick, ident |-> ""],
     [cmd |-> "RPL_ENDOFWHOWAS", nick |-> "other", ident |-> ""]}

NoResult == [users |-> <<>>, err |-> NoErr, id |-> <<>>, timeout |-> 0]

IsValidPort(p) == ~(p < MinPort \/ p > MaxPort)

\* a configuration Connect accepts
BaseConfig ==
    [server |-> "irc.example.org", port |-> 6667, nickOk |-> TRUE,
     userOk |-> TRUE, password |-> "", userConn |-> "none", maxRetries |-> 1,
     delay |-> 5]

\* the configurations tried: BaseConfig, one with a server password, a
\* long delay and the most retries, one with a connection supplied by the
\* program and no retries, and those Connect rejects for one field
Configs ==
    {BaseConfig}
    \cup {[BaseConfig EXCEPT !.password = "secret",
                             !.maxRetries = MaxRetriesBound,
                             !.delay = 3 * MinReconnectDelay]}
    \cup {[BaseConfig EXCEPT !.userConn = "open", !.maxRetries = 0]}
    \cup {[BaseConfig EXCEPT !.server = ""]}
    \cup {[BaseConfig EXCEPT !.port = p] : p \in {MinPort - 1, MaxPort + 1}}
    \cup {[BaseConfig EXCEPT !.nickOk = FALSE]}
    \cup {[BaseConfig EXCEPT !.userOk = FALSE]}

(***************************************************************************)
(* New(config): the client after construction.  A goroutine that runs     *)
(* readLoop or Loop has the stack and the operation its start gave it.     *)
(***************************************************************************)
Idle ==
    /\ tries = 0
    /\ events = <<>>
    /\ evClosed = FALSE
    /\ stk = [t \in Tasks |-> IF pc[t] = "rl_check" THEN <<"ret">> ELSE <<>>]
    /\ op = [t \in Tasks |-> IF pc[t] = "rl_check" THEN "readLoop"
                             ELSE IF pc[t] = "lp_select" THEN "Loop"
                             ELSE "none"]
    /\ arg = [t \in Tasks |-> TRUE]
    /\ was = [t \in Tasks |-> FALSE]
    /\ rv = [t \in Tasks |-> NoErr]
    /\ err = [t \in Tasks |-> NoErr]
    /\ held = [t \in Tasks |-> <<>>]
    /\ did = [t \in Tasks |-> <<>>]
    /\ calls = 0
    /\ net = "up"
    /\ served = 0
    /\ crashed = FALSE
    /\ reg = {}
    /\ nextId = 1
    /\ todo = <<>>
    /\ whoDone = [i \in Ids |-> "none"]
    /\ mu = [i \in Ids |-> FALSE]
    /\ whoEvents = [i \in Ids |-> <<>>]
    /\ who = [t \in Tasks |-> <<>>]
    /\ wres = [t \in Tasks |-> NoResult]
    /\ chanOut = [t \in Tasks |-> <<>>]
    /\ slept = [t \in Tasks |-> <<>>]

\* a zero-valued CModes and UserPerms: no channel and no user is tracked
NoModes ==
    [raw |-> <<>>, modesListArgs |-> <<>>, modesArgs |-> <<>>,
     modesSetArgs |-> <<>>, modesNoArgs |-> <<>>, prefixes |-> <<>>,
     modes |-> <<>>]

NoPerms ==
    [Owner |-> FALSE, Admin |-> FALSE, Op |-> FALSE, HalfOp |-> FALSE,
     Voice |-> FALSE]

NoInput == [flags |-> <<>>, args |-> <<>>]

NoTracking ==
    /\ cmodes = NoModes
    /\ perms = NoPerms
    /\ inp = NoInput
    /\ parsed = <<>>
    /\ channels = {}

Init ==
    /\ config \in Configs
    /\ st = newState
    /\ pc = [t \in Tasks |-> IF t \in Users THEN "idle" ELSE "off"]
    /\ spawned = 0
    /\ Idle
    /\ NoTracking

(***************************************************************************)
(* Control flow of a task.                                                 *)
(***************************************************************************)
Home(t) == IF t \in Users THEN "idle" ELSE "off"

Running(t, l) == ~crashed /\ pc[t] = l

Goto(t, l) == pc' = [pc EXCEPT ![t] = l]

\* a call pushes the statement to go on with
Call(t, entry, back) ==
    /\ pc' = [pc EXCEPT ![t] = entry]
    /\ stk' = [stk EXCEPT ![t] = <<back>> \o @]

\* the bottom of the stack of a task that is in an API call or goroutine is
\* "ret": the call has returned and its result is with the caller
Return(t, val) ==
    /\ rv' = [rv EXCEPT ![t] = val]
    /\ pc' = [pc EXCEPT ![t] = Head(stk[t])]
    /\ stk' = [stk EXCEPT ![t] = Tail(@)]

\* the caller goes on (the goroutine ends)
Resume(t) ==
    /\ Running(t, "ret")
    /\ pc' = [pc EXCEPT ![t] = Home(t)]
    /\ stk' = [stk EXCEPT ![t] = <<>>]
    /\ op' = [op EXCEPT ![t] = "none"]
    /\ arg' = [arg EXCEPT ![t] = TRUE]
    /\ was' = [was EXCEPT ![t] = FALSE]
    /\ rv' = [rv EXCEPT ![t] = NoErr]
    /\ err' = [err EXCEPT ![t] = NoErr]
    /\ held' = [held EXCEPT ![t] = <<>>]
    /\ did' = [did EXCEPT ![t] = <<>>]
    /\ who' = [who EXCEPT ![t] = <<>>]
    /\ wres' = [wres EXCEPT ![t] = NoResult]
    /\ chanOut' = [chanOut EXCEPT ![t] = <<>>]
    /\ slept' = [slept EXCEPT ![t] = <<>>]
    /\ UNCHANGED <<config, st, tries, events, evClosed, calls, net, served,
                   crashed, spawned, reg, nextId, todo, whoDone, mu,
                   whoEvents, cmodes, perms, inp, parsed, channels>>

(***************************************************************************)
(* Client.Send: encodes the event with c.state.writer.  The encoder is     *)
(* the external codec: it writes the event to the connection or reports    *)
(* the write error (the connection is closed, the network is down);        *)
(* c.state.writer is nil until Connect has opened a transport, and a call  *)
(* through it faults or fails.                                             *)
(***************************************************************************)
EncodeOutcomes ==
    IF st.conn = "nil" THEN {"panic", "err"}
    ELSE IF st.conn = "closed" \/ net = "down" THEN {"err"}
    ELSE {"ok"}

Send(t, cmd, o) ==
    /\ o \in EncodeOutcomes
    /\ did' = [did EXCEPT ![t] = IF o = "ok" THEN Append(@, cmd)
                                 ELSE IF o = "err" THEN Append(@, "fail")
                                 ELSE @]
    /\ crashed' = (o = "panic")

\* lines 891-894 of Nick: c.state.m.Lock(), the Send, c.state.m.Unlock()
LockedSend(t, cmd, o) ==
    /\ o \in EncodeOutcomes
    /\ did' = [did EXCEPT ![t] =
                  @ \o <<"m.Lock">>
                    \o (IF o = "ok" THEN <<cmd>>
                        ELSE IF o = "err" THEN <<"fail">> ELSE <<>>)
                    \o (IF o = "panic" THEN <<>> ELSE <<"m.Unlock">>)]
    /\ crashed' = (o = "panic")

\* net.Conn.Close() on c.state.conn; a user-supplied Config.Conn is that
\* same connection
CloseConn ==
    /\ st' = [st EXCEPT !.conn = "closed"]
    /\ config' = IF config.userConn = "none" THEN config
                 ELSE [config EXCEPT !.userConn = "closed"]

\* Client.IsConnected
IsConnected == st.connected

(***************************************************************************)
(* Client.connectMessages: PASS if a password is configured, NICK, USER.   *)
(***************************************************************************)
\* handshake events with the nickname ahead of the password: an order the
\* property of C13 has to tell from the real one
connectMessagesNickFirst ==
    <<"NICK">> \o (IF config.password # "" THEN <<"PASS">> ELSE <<>>)
               \o <<"USER">>

connectMessages ==
    (IF config.password # "" THEN <<"PASS">> ELSE <<>>) \o <<"NICK", "USER">>

(***************************************************************************)
(* Client.Connect                                                          *)
(***************************************************************************)
\* sanity checks that would leave out the port range: a Connect the
\* property of C5 has to tell from the real one
ConfigErrorNoRange ==
    IF config.server = "" THEN "invalid server specified"
    ELSE IF ~config.nickOk \/ ~config.userOk
    THEN "invalid nickname or user"
    ELSE ""

\* the error of the sanity checks of lines 665-675, "" if they pass
ConfigError ==
    IF config.server = "" THEN "invalid server specified"
    ELSE IF config.port < MinPort \/ config.port > MaxPort
    THEN "invalid port (21-65535)"
    ELSE IF ~config.nickOk \/ ~config.userOk
    THEN "invalid nickname or user"
    ELSE ""

\* lines 665-678: a sanity check fails and Connect returns its error;
\* otherwise c.state = newState(), whose channel table is empty
ConnectCheck(t) ==
    /\ Running(t, "cn_check")
    /\ IF ConfigError # ""
       THEN Return(t, ConfigError) /\ UNCHANGED <<st, channels>>
       ELSE /\ st' = newState
            /\ channels' = {}
            /\ Goto(t, "cn_dial")
            /\ UNCHANGED <<stk, rv>>
    /\ UNCHANGED <<config, tries, events, evClosed, op, arg, was, err, held,
                   did, calls, net, served, crashed, spawned, reg, nextId,
                   todo, whoDone, mu, whoEvents, who, wres, cmodes, perms,
                   inp, parsed, chanOut, slept>>

\* lines 683-704: open the transport (or take Config.Conn), wrap it in the
\* decoder and encoder and send the events of connectMessages in order,
\* returning the first error
ConnectDial(t) ==
    /\ Running(t, "cn_dial")
    /\ IF config.userConn = "none" /\ net = "down"
       THEN /\ did' = [did EXCEPT ![t] = Append(@, "dial")]
            /\ Return(t, "dial error")
            /\ UNCHANGED st
       ELSE /\ st' = [st EXCEPT !.conn = IF config.userConn = "none"
                                         THEN "open" ELSE config.userConn]
            /\ LET opened == IF config.userConn = "none" THEN <<"dial">>
                             ELSE <<>> IN
               IF config.userConn = "closed" \/ net = "down"
               THEN /\ did' = [did EXCEPT ![t] = @ \o opened \o <<"fail">>]
                    /\ Return(t, "write error")
               ELSE /\ did' = [did EXCEPT ![t] = @ \o opened \o connectMessages]
                    /\ Goto(t, "cn_spawn")
                    /\ UNCHANGED <<stk, rv>>
    /\ UNCHANGED <<config, tries, events, evClosed, op, arg, was, err, held,
                   calls, net, served, crashed, spawned, reg, nextId, todo,
                   whoDone, mu, whoEvents, who, wres, cmodes, perms, inp,
                   parsed, channels, chanOut, slept>>

\* lines 706-717: go c.readLoop(); c.tries = 0; mark the state connected
\* under the lock; return nil
ConnectMark(t) ==
    /\ Running(t, "cn_spawn")
    /\ spawned' = spawned + 1
    /\ did' = [did EXCEPT ![t] = @ \o <<"go readLoop", "m.Lock", "m.Unlock">>]
    /\ tries' = 0
    /\ st' = [st EXCEPT !.connected = TRUE, !.connTime = TRUE]
    /\ Return(t, NoErr)
    /\ UNCHANGED <<config, events, evClosed, op, arg, was, err, held, calls,
                   net, served, crashed, reg, nextId, todo, whoDone, mu,
                   whoEvents, who, wres, cmodes, perms, inp, parsed, channels,
                   chanOut, slept>>

\* the readLoop goroutine that Connect started begins to run
readLoopStart(t) ==
    /\ Running(t, "off")
    /\ spawned > 0
    /\ spawned' = spawned - 1
    /\ pc' = [pc EXCEPT ![t] = "rl_check"]
    /\ stk' = [stk EXCEPT ![t] = <<"ret">>]
    /\ op' = [op EXCEPT ![t] = "readLoop"]
    /\ UNCHANGED <<config, st, tries, events, evClosed, arg, was, rv, err,
                   held, did, calls, net, served, crashed, reg, nextId, todo,
                   whoDone, mu, whoEvents, who, wres, cmodes, perms, inp,
                   parsed, channels, chanOut, slept>>

(***************************************************************************)
(* Client.Quit                                                             *)
(***************************************************************************)
\* line 616
QuitSet(t) ==
    /\ Running(t, "qt_set")
    /\ st' = [st EXCEPT !.hasQuit = TRUE]
    /\ did' = [did EXCEPT ![t] = Append(@, "hasQuit")]
    /\ Goto(t, "qt_send")
    /\ UNCHANGED <<config, tries, events, evClosed, stk, op, arg, was, rv,
                   err, held, calls, net, served, crashed, spawned, reg,
                   nextId, todo, whoDone, mu, whoEvents, who, wres, cmodes,
                   perms, inp, parsed, channels, chanOut, slept>>

\* line 622; the result of Send is dropped
QuitSend(t) ==
    /\ Running(t, "qt_send")
    /\ \E o \in EncodeOutcomes :
         /\ Send(t, "QUIT", o)
         /\ IF o = "panic" THEN UNCHANGED pc ELSE Goto(t, "qt_close")
    /\ UNCHANGED <<config, st, tries, events, evClosed, stk, op, arg, was, rv,
                   err, held, calls, net, served, spawned, reg, nextId, todo,
                   whoDone, mu, whoEvents, who, wres, cmodes, perms, inp,
                   parsed, channels, chanOut, slept>>

\* lines 624-626
QuitClose(t) ==
    /\ Running(t, "qt_close")
    /\ IF st.conn # "nil"
       THEN /\ CloseConn
            /\ did' = [did EXCEPT ![t] = Append(@, "close")]
       ELSE UNCHANGED <<st, config, did>>
    /\ Goto(t, "qt_defer")
    /\ UNCHANGED <<tries, events, evClosed, stk, op, arg, was, rv, err, held,
                   calls, net, served, crashed, spawned, reg, nextId, todo,
                   whoDone, mu, whoEvents, who, wres, cmodes, perms, inp,
                   parsed, channels, chanOut, slept>>

\* a Quit that would return without the deferred reset: what the property
\* of C8 has to tell from the real one
QuitDeferKeep(t) ==
    /\ Running(t, "qt_defer")
    /\ Return(t, NoErr)
    /\ UNCHANGED <<config, st, tries, events, evClosed, op, arg, was, err,
                   held, did, calls, net, served, crashed, spawned, reg,
                   nextId, todo, whoDone, mu, whoEvents, who, wres, cmodes,
                   perms, inp, parsed, channels, chanOut, slept>>

\* lines 617-620: the deferred reset of hasQuit, then Quit returns
QuitDefer(t) ==
    /\ Running(t, "qt_defer")
    /\ st' = [st EXCEPT !.hasQuit = FALSE]
    /\ Return(t, NoErr)
    /\ UNCHANGED <<config, tries, events, evClosed, op, arg, was, err, held,
                   did, calls, net, served, crashed, spawned, reg, nextId,
                   todo, whoDone, mu, whoEvents, who, wres, cmodes, perms,
                   inp, parsed, channels, chanOut, slept>>

(***************************************************************************)
(* Client.Stop: a send on the unbuffered quitChan; it completes when Loop  *)
(* is at its select and takes the quitChan case, and Loop then returns.    *)
(***************************************************************************)
Stop(t) ==
    /\ Running(t, "sp_send")
    /\ pc[LoopTask] = "lp_select"
    /\ rv' = [rv EXCEPT ![t] = NoErr]
    /\ pc' = [pc EXCEPT ![t] = Head(stk[t]), ![LoopTask] = "lp_done"]
    /\ stk' = [stk EXCEPT ![t] = Tail(@)]
    /\ UNCHANGED <<config, st, tries, events, evClosed, op, arg, was, err,
                   held, did, calls, net, served, crashed, spawned, reg,
                   nextId, todo, whoDone, mu, whoEvents, who, wres, cmodes,
                   perms, inp, parsed, channels, chanOut, slept>>

(***************************************************************************)
(* Client.Reconnect                                                        *)
(***************************************************************************)
\* lines 776-778: the guard is read ...
ReconnectGuard(t) ==
    /\ Running(t, "rc_guard")
    /\ IF st.reconnecting
       THEN Return(t, ErrAlreadyConnecting)
       ELSE Goto(t, "rc_set") /\ UNCHANGED <<stk, rv>>
    /\ UNCHANGED <<config, st, tries, events, evClosed, op, arg, was, err,
                   held, did, calls, net, served, crashed, spawned, reg,
                   nextId, todo, whoDone, mu, whoEvents, who, wres, cmodes,
                   perms, inp, parsed, channels, chanOut, slept>>

\* line 781: ... and written, in a separate statement and without a lock
ReconnectSet(t) ==
    /\ Running(t, "rc_set")
    /\ st' = [st EXCEPT !.reconnecting = TRUE]
    /\ did' = [did EXCEPT ![t] = Append(@, "reconnecting")]
    /\ Goto(t, "rc_quitchk")
    /\ UNCHANGED <<config, tries, events, evClosed, stk, op, arg, was, rv,
                   err, held, calls, net, served, crashed, spawned, reg,
                   nextId, todo, whoDone, mu, whoEvents, who, wres, cmodes,
                   perms, inp, parsed, channels, chanOut, slept>>

\* lines 783-793: nothing to do if the client has quit; otherwise the floor
\* of the delay is enforced and, if c.IsConnected(), c.Quit("reconnecting...")
\* is called
ReconnectQuitCheck(t) ==
    /\ Running(t, "rc_quitchk")
    /\ IF st.hasQuit
       THEN Goto(t, "rc_noop") /\ UNCHANGED <<config, did, stk>>
       ELSE /\ IF config.delay < MinReconnectDelay
               THEN /\ config' = [config EXCEPT !.delay = MinReconnectDelay]
                    /\ did' = [did EXCEPT ![t] = Append(@, "ReconnectDelay")]
               ELSE UNCHANGED <<config, did>>
            /\ IF IsConnected
               THEN Call(t, "qt_set", "rc_retries")
               ELSE Goto(t, "rc_retries") /\ UNCHANGED stk
    /\ UNCHANGED <<st, tries, events, evClosed, op, arg, was, rv, err, held,
                   calls, net, served, crashed, spawned, reg, nextId, todo,
                   whoDone, mu, whoEvents, who, wres, cmodes, perms, inp,
                   parsed, channels, chanOut, slept>>

\* line 784: return nil
ReconnectNoop(t) ==
    /\ Running(t, "rc_noop")
    /\ Return(t, NoErr)
    /\ UNCHANGED <<config, st, tries, events, evClosed, op, arg, was, err,
                   held, did, calls, net, served, crashed, spawned, reg,
                   nextId, todo, whoDone, mu, whoEvents, who, wres, cmodes,
                   perms, inp, parsed, channels, chanOut, slept>>

\* lines 795-803: with MaxRetries > 0, time.Sleep(c.Config.ReconnectDelay),
\* then the init statement of the for loop: err = c.Connect()
ReconnectSleep(t) ==
    /\ Running(t, "rc_retries")
    /\ config.maxRetries > 0
    /\ did' = [did EXCEPT ![t] = @ \o <<"sleep", "Connect">>]
    /\ slept' = [slept EXCEPT ![t] = Append(@, config.delay)]
    /\ Call(t, "cn_check", "rc_cond")
    /\ UNCHANGED <<config, st, tries, events, evClosed, op, arg, was, rv, err,
                   held, calls, net, served, crashed, spawned, reg, nextId,
                   todo, whoDone, mu, whoEvents, who, wres, cmodes, perms,
                   inp, parsed, channels, chanOut>>

\* lines 803-807: err is what the one call of Connect returned; while
\* err != nil && c.tries < c.Config.MaxRetries the body sets the guard and
\* sleeps and the post statement is c.tries++ (Connect is not called again)
ReconnectBackoff(t) ==
    /\ Running(t, "rc_cond")
    /\ rv[t] # NoErr /\ tries < config.maxRetries
    /\ st' = [st EXCEPT !.reconnecting = TRUE]
    /\ did' = [did EXCEPT ![t] = @ \o <<"reconnecting", "sleep">>]
    /\ slept' = [slept EXCEPT ![t] = Append(@, config.delay)]
    /\ tries' = tries + 1
    /\ UNCHANGED <<config, events, evClosed, pc, stk, op, arg, was, rv, err,
                   held, calls, net, served, crashed, spawned, reg, nextId,
                   todo, whoDone, mu, whoEvents, who, wres, cmodes, perms,
                   inp, parsed, channels, chanOut>>

\* the loop of lines 803-807 has ended with err != nil
Exhausted(t) ==
    pc[t] = "rc_cond" /\ rv[t] # NoErr /\ ~(tries < config.maxRetries)

\* lines 809-812: too many errors, c.Stop()
ReconnectStop(t) ==
    /\ ~crashed
    /\ Exhausted(t)
    /\ err' = [err EXCEPT ![t] = rv[t]]
    /\ Call(t, "sp_send", "rc_failed")
    /\ UNCHANGED <<config, st, tries, events, evClosed, op, arg, was, rv,
                   held, did, calls, net, served, crashed, spawned, reg,
                   nextId, todo, whoDone, mu, whoEvents, who, wres, cmodes,
                   perms, inp, parsed, channels, chanOut, slept>>

\* line 814: return err, Connect having succeeded
ReconnectDone(t) ==
    /\ Running(t, "rc_cond")
    /\ rv[t] = NoErr
    /\ Return(t, NoErr)
    /\ UNCHANGED <<config, st, tries, events, evClosed, op, arg, was, err,
                   held, did, calls, net, served, crashed, spawned, reg,
                   nextId, todo, whoDone, mu, whoEvents, who, wres, cmodes,
                   perms, inp, parsed, channels, chanOut, slept>>

\* line 814: return err, once Stop has returned
ReconnectFailed(t) ==
    /\ Running(t, "rc_failed")
    /\ Return(t, err[t])
    /\ UNCHANGED <<config, st, tries, events, evClosed, op, arg, was, err,
                   held, did, calls, net, served, crashed, spawned, reg,
                   nextId, todo, whoDone, mu, whoEvents, who, wres, cmodes,
                   perms, inp, parsed, channels, chanOut, slept>>

\* lines 795 and 817-818: with MaxRetries <= 0, close(c.Events); closing a
\* closed channel panics
ReconnectClose(t) ==
    /\ Running(t, "rc_retries")
    /\ ~(config.maxRetries > 0)
    /\ IF evClosed
       THEN crashed' = TRUE /\ UNCHANGED <<evClosed, pc, stk, rv, did>>
       ELSE /\ evClosed' = TRUE
            /\ did' = [did EXCEPT ![t] = Append(@, "close Events")]
            /\ Return(t, NoErr)
            /\ UNCHANGED crashed
    /\ UNCHANGED <<config, st, tries, events, op, arg, was, err, held, calls,
                   net, served, spawned, reg, nextId, todo, whoDone, mu,
                   whoEvents, who, wres, cmodes, perms, inp, parsed, channels,
                   chanOut, slept>>

(***************************************************************************)
(* Client.readLoop                                                         *)
(***************************************************************************)
\* lines 825-827
readLoopCheck(t) ==
    /\ Running(t, "rl_check")
    /\ IF st.reconnecting \/ st.hasQuit
       THEN Return(t, ErrNotConnected)
       ELSE Goto(t, "rl_read") /\ UNCHANGED <<stk, rv>>
    /\ UNCHANGED <<config, st, tries, events, evClosed, op, arg, was, err,
                   held, did, calls, net, served, crashed, spawned, reg,
                   nextId, todo, whoDone, mu, whoEvents, who, wres, cmodes,
                   perms, inp, parsed, channels, chanOut, slept>>

\* lines 829-830: SetDeadline and Decode on whatever c.state holds now; the
\* server has sent an event
readLoopDecode(t) ==
    /\ Running(t, "rl_read")
    /\ st.conn = "open"
    /\ served < MaxEvents
    /\ served' = served + 1
    /\ \E e \in WhowasReplies : held' = [held EXCEPT ![t] = <<e>>]
    /\ Goto(t, "rl_enqueue")
    /\ UNCHANGED <<config, st, tries, events, evClosed, stk, op, arg, was, rv,
                   err, did, calls, net, crashed, spawned, reg, nextId, todo,
                   whoDone, mu, whoEvents, who, wres, cmodes, perms, inp,
                   parsed, channels, chanOut, slept>>

\* lines 829-834: a nil connection panics; Decode fails on a closed
\* connection, when the network is down and when the idle deadline expires
\* on a silent server, and then: return c.Reconnect()
readLoopFail(t) ==
    /\ Running(t, "rl_read")
    /\ IF st.conn = "nil"
       THEN crashed' = TRUE /\ UNCHANGED <<pc, op>>
       ELSE /\ Goto(t, "rc_guard")
            /\ op' = [op EXCEPT ![t] = "Reconnect"]
            /\ UNCHANGED crashed
    /\ UNCHANGED <<config, st, tries, events, evClosed, stk, arg, was, rv,
                   err, held, did, calls, net, served, spawned, reg, nextId,
                   todo, whoDone, mu, whoEvents, who, wres, cmodes, perms,
                   inp, parsed, channels, chanOut, slept>>

\* line 836: c.Events <- event blocks while the buffer is full and panics
\* once the channel is closed
readLoopEnqueue(t) ==
    /\ Running(t, "rl_enqueue")
    /\ IF evClosed
       THEN crashed' = TRUE /\ UNCHANGED <<events, pc, held>>
       ELSE /\ Len(events) < EventsCap
            /\ events' = Append(events, Head(held[t]))
            /\ held' = [held EXCEPT ![t] = <<>>]
            /\ Goto(t, "rl_check")
            /\ UNCHANGED crashed
    /\ UNCHANGED <<config, st, tries, evClosed, stk, op, arg, was, rv, err,
                   did, calls, net, served, spawned, reg, nextId, todo,
                   whoDone, mu, whoEvents, who, wres, cmodes, perms, inp,
                   parsed, channels, chanOut, slept>>

(***************************************************************************)
(* Client.Loop and the dispatch of an event to the registered handlers.    *)
(***************************************************************************)
\* the program starts Loop in its goroutine
LoopStart ==
    /\ Running(LoopTask, "off")
    /\ pc' = [pc EXCEPT ![LoopTask] = "lp_select"]
    /\ op' = [op EXCEPT ![LoopTask] = "Loop"]
    /\ UNCHANGED <<config, st, tries, events, evClosed, stk, arg, was, rv,
                   err, held, did, calls, net, served, crashed, spawned, reg,
                   nextId, todo, whoDone, mu, whoEvents, who, wres, cmodes,
                   perms, inp, parsed, channels, chanOut, slept>>

\* line 845: case event := <-c.Events; a closed channel yields nil
LoopReceive ==
    /\ Running(LoopTask, "lp_select")
    /\ events # <<>> \/ evClosed
    /\ held' = [held EXCEPT ![LoopTask] =
                   IF events # <<>> THEN <<Head(events)>> ELSE <<NilEvent>>]
    /\ events' = IF events # <<>> THEN Tail(events) ELSE events
    /\ Goto(LoopTask, "lp_run")
    /\ UNCHANGED <<config, st, tries, evClosed, stk, op, arg, was, rv, err,
                   did, calls, net, served, crashed, spawned, reg, nextId,
                   todo, whoDone, mu, whoEvents, who, wres, cmodes, perms,
                   inp, parsed, channels, chanOut, slept>>

\* the handlers registered for a command, in registration order
RECURSIVE InOrder(_)
InOrder(hset) ==
    IF hset = {} THEN <<>>
    ELSE LET h == CHOOSE x \in hset : \A y \in hset : x.id <= y.id
         IN <<h>> \o InOrder(hset \ {h})

Handlers(cmd) == InOrder({h \in reg : h.cmd = cmd})

\* line 846: c.RunCallbacks(event) takes the handlers registered for the
\* event's command; what it does with the nil event of a closed channel is
\* not known: it faults or finds no handler
RunCallbacks ==
    /\ Running(LoopTask, "lp_run")
    /\ LET e == Head(held[LoopTask]) IN
       \E o \in IF e = NilEvent THEN {"run", "panic"} ELSE {"run"} :
         /\ crashed' = (o = "panic")
         /\ todo' = IF o = "run" THEN Handlers(e.cmd) ELSE todo
         /\ Goto(LoopTask, IF o = "panic" THEN "lp_run"
                           ELSE IF Handlers(e.cmd) = <<>> THEN "lp_select"
                           ELSE "cb_next")
    /\ UNCHANGED <<config, st, tries, events, evClosed, stk, op, arg, was, rv,
                   err, held, did, calls, net, served, spawned, reg, nextId,
                   whoDone, mu, whoEvents, who, wres, cmodes, perms, inp,
                   parsed, channels, chanOut, slept>>

\* the running dispatch goes on to its next handler, or back to the select
Proceed ==
    /\ todo' = Tail(todo)
    /\ Goto(LoopTask, IF Tail(todo) = <<>> THEN "lp_select" ELSE "cb_next")

\* the network goes away, for good
NetDown ==
    /\ ~crashed
    /\ net = "up"
    /\ net' = "down"
    /\ UNCHANGED <<config, st, tries, events, evClosed, pc, stk, op, arg, was,
                   rv, err, held, did, calls, served, crashed, spawned, reg,
                   nextId, todo, whoDone, mu, whoEvents, who, wres, cmodes,
                   perms, inp, parsed, channels, chanOut, slept>>

(***************************************************************************)
(* The program calls the API: at most MaxCalls calls in one behaviour.     *)
(***************************************************************************)
\* the tasks of the program are alike: the first call is u1's
Before(u, t) == u = Caller /\ t # Caller

Begin(t, o, entry, valid) ==
    /\ Running(t, "idle")
    /\ calls < MaxCalls
    /\ \A u \in Users : Before(u, t) => calls > 0
    /\ calls' = calls + 1
    /\ pc' = [pc EXCEPT ![t] = entry]
    /\ stk' = [stk EXCEPT ![t] = <<"ret">>]
    /\ op' = [op EXCEPT ![t] = o]
    /\ arg' = [arg EXCEPT ![t] = valid]
    /\ was' = [was EXCEPT ![t] = IsConnected]
    /\ UNCHANGED <<config, st, tries, events, evClosed, rv, err, held, did,
                   net, served, crashed, spawned, reg, nextId, todo, whoDone,
                   mu, whoEvents, who, wres, cmodes, perms, inp, parsed,
                   channels, chanOut, slept>>

CallConnect(t) == Begin(t, "Connect", "cn_check", TRUE)

CallReconnect(t) == Begin(t, "Reconnect", "rc_guard", TRUE)

CallQuit(t) == Begin(t, "Quit", "qt_set", TRUE)

CallStop(t) == Begin(t, "Stop", "sp_send", TRUE)

(***************************************************************************)
(* The outbound operations, lines 881-896 and 928-1036 and 1133-1135.      *)
(***************************************************************************)
\* operations that check their target and then the connection
TargetOps == {"Join", "Part", "Message", "Action", "Notice"}
SendOps == TargetOps \cup {"Nick", "SendRaw", "Send", "Topic"}

\* the command of the event each operation sends
Command(o) ==
    CASE o = "Join" -> "JOIN"
      [] o = "Part" -> "JOIN"
      [] o = "Message" -> "PRIVMSG"
      [] o = "Action" -> "PRIVMSG"
      [] o = "Notice" -> "NOTICE"
      [] o = "Nick" -> "NICK"
      [] o = "Topic" -> "TOPIC"
      [] OTHER -> "RAW"

\* what the operation returns before sending anything, "" if it goes on
Refusal(o, valid, connected) ==
    CASE o \in TargetOps ->
            IF ~valid THEN ErrInvalidTarget
            ELSE IF ~connected THEN ErrNotConnected ELSE ""
      [] o = "Nick" ->
            IF ~connected THEN ErrNotConnected
            ELSE IF ~valid THEN ErrInvalidTarget ELSE ""
      [] o = "SendRaw" ->
            IF ~valid THEN "invalid event"
            ELSE IF ~connected THEN ErrNotConnected ELSE ""
      [] OTHER -> ""

CallSend(t) ==
    \E o \in SendOps, valid \in BOOLEAN : Begin(t, o, "so_check", valid)

\* the checks that precede the send
SendCheck(t) ==
    /\ Running(t, "so_check")
    /\ IF Refusal(op[t], arg[t], IsConnected) # ""
       THEN Return(t, Refusal(op[t], arg[t], IsConnected))
       ELSE Goto(t, "so_send") /\ UNCHANGED <<stk, rv>>
    /\ UNCHANGED <<config, st, tries, events, evClosed, op, arg, was, err,
                   held, did, calls, net, served, crashed, spawned, reg,
                   nextId, todo, whoDone, mu, whoEvents, who, wres, cmodes,
                   perms, inp, parsed, channels, chanOut, slept>>

\* return c.Send(&Event{...}); Nick sends holding the state lock
SendEvent(t) ==
    /\ Running(t, "so_send")
    /\ \E o \in EncodeOutcomes :
         /\ IF op[t] = "Nick" THEN LockedSend(t, Command(op[t]), o)
            ELSE Send(t, Command(op[t]), o)
         /\ IF o = "panic" THEN UNCHANGED <<pc, stk, rv>>
            ELSE Return(t, IF o = "ok" THEN NoErr ELSE "write error")
    /\ UNCHANGED <<config, st, tries, events, evClosed, op, arg, was, err,
                   held, calls, net, served, spawned, reg, nextId, todo,
                   whoDone, mu, whoEvents, who, wres, cmodes, perms, inp,
                   parsed, channels, chanOut, slept>>

(***************************************************************************)
(* The callback registry: AddBg registers a background handler for a       *)
(* command and returns its identifier, Remove deletes the entry.  A         *)
(* handler of a Whowas call carries the identifier of the call's first     *)
(* handler, which names the mu, events and whoDone of that call.           *)
(***************************************************************************)
AddBg(cmd, call) ==
    /\ reg' = reg \cup {[id |-> nextId, cmd |-> cmd, call |-> call]}
    /\ nextId' = nextId + 1

Remove(ids) == reg' = {h \in reg : h.id \notin ids}

Range(q) == {q[i] : i \in 1..Len(q)}

(***************************************************************************)
(* Client.Whowas                                                           *)
(***************************************************************************)
CallWhowas(t) == \E valid \in BOOLEAN : Begin(t, "Whowas", "ww_check", valid)

\* the value a Whowas call returns
Failure(e) == [NoResult EXCEPT !.err = e]

Finish(t, res) ==
    /\ wres' = [wres EXCEPT ![t] = res]
    /\ Return(t, res.err)

\* lines 1047-1053
WhowasCheck(t) ==
    /\ Running(t, "ww_check")
    /\ IF ~arg[t] THEN Finish(t, Failure(ErrInvalidTarget))
       ELSE IF ~IsConnected THEN Finish(t, Failure(ErrNotConnected))
       ELSE Goto(t, "ww_add") /\ UNCHANGED <<stk, rv, wres>>
    /\ UNCHANGED <<config, st, tries, events, evClosed, op, arg, was, err,
                   held, did, calls, net, served, crashed, spawned, reg,
                   nextId, todo, whoDone, mu, whoEvents, who, cmodes, perms,
                   inp, parsed, channels, chanOut, slept>>

\* lines 1055-1074: mu, events, whoDone := make(chan struct{}), and the
\* handler that collects the RPL_WHOWASUSER lines
WhowasAddCb(t) ==
    /\ Running(t, "ww_add")
    /\ AddBg("RPL_WHOWASUSER", nextId)
    /\ who' = [who EXCEPT ![t] = <<nextId>>]
    /\ whoDone' = [whoDone EXCEPT ![nextId] = "open"]
    /\ Goto(t, "ww_add2")
    /\ UNCHANGED <<config, st, tries, events, evClosed, stk, op, arg, was, rv,
                   err, held, did, calls, net, served, crashed, spawned, todo,
                   mu, whoEvents, wres, cmodes, perms, inp, parsed, channels,
                   chanOut, slept>>

\* lines 1079-1092: the handler that signals the end of the replies
WhowasAddDoneCb(t) ==
    /\ Running(t, "ww_add2")
    /\ AddBg("RPL_ENDOFWHOWAS", who[t][1])
    /\ who' = [who EXCEPT ![t] = Append(@, nextId)]
    /\ Goto(t, "ww_send")
    /\ UNCHANGED <<config, st, tries, events, evClosed, stk, op, arg, was, rv,
                   err, held, did, calls, net, served, crashed, spawned, todo,
                   whoDone, mu, whoEvents, wres, cmodes, perms, inp, parsed,
                   channels, chanOut, slept>>

\* line 1095: the result of Send is dropped
WhowasSend(t) ==
    /\ Running(t, "ww_send")
    /\ \E o \in EncodeOutcomes :
         /\ Send(t, "WHOWAS", o)
         /\ IF o = "panic" THEN UNCHANGED pc ELSE Goto(t, "ww_wait")
    /\ UNCHANGED <<config, st, tries, events, evClosed, stk, op, arg, was, rv,
                   err, held, calls, net, served, spawned, reg, nextId, todo,
                   whoDone, mu, whoEvents, who, wres, cmodes, perms, inp,
                   parsed, channels, chanOut, slept>>

\* lines 1098-1100 with line 1090: the handler's send on whoDone meets the
\* receive of the select, and the call closes the channel
WhowasDone(t) ==
    /\ Running(t, "ww_wait")
    /\ pc[LoopTask] = "cb_send"
    /\ Head(todo).call = who[t][1]
    /\ whoDone[who[t][1]] = "open"
    /\ whoDone' = [whoDone EXCEPT ![who[t][1]] = "closed"]
    /\ pc' = [pc EXCEPT ![t] = "ww_remove", ![LoopTask] = "cb_unlock"]
    /\ UNCHANGED <<config, st, tries, events, evClosed, stk, op, arg, was, rv,
                   err, held, did, calls, net, served, crashed, spawned, reg,
                   nextId, todo, mu, whoEvents, who, wres, cmodes, perms, inp,
                   parsed, channels, chanOut, slept>>

\* lines 1101-1109: two seconds have passed: the error names both handlers
WhowasTimedOut(t) ==
    /\ Running(t, "ww_wait")
    /\ wres' = [wres EXCEPT ![t] =
                   [users |-> <<>>, err |-> ErrCallbackTimedout,
                    id |-> who[t], timeout |-> TimeoutSeconds]]
    /\ Goto(t, "ww_remove")
    /\ UNCHANGED <<config, st, tries, events, evClosed, stk, op, arg, was, rv,
                   err, held, did, calls, net, served, crashed, spawned, reg,
                   nextId, todo, whoDone, mu, whoEvents, who, cmodes, perms,
                   inp, parsed, channels, chanOut, slept>>

\* the Users built from the collected events, lines 1117-1126
UsersOf(evs) == [i \in 1..Len(evs) |-> [nick |-> evs[i].nick,
                                        ident |-> evs[i].ident]]

\* a Whowas that would forget the completion handler after a timeout: what
\* the property of C6 has to tell from the real one
WhowasRemoveCollector(t) ==
    /\ Running(t, "ww_remove")
    /\ IF wres[t].err = ErrCallbackTimedout
       THEN Remove({who[t][1]}) /\ Finish(t, wres[t])
       ELSE /\ Remove(Range(who[t]))
            /\ Finish(t, [NoResult EXCEPT
                             !.users = UsersOf(whoEvents[who[t][1]])])
    /\ UNCHANGED <<config, st, tries, events, evClosed, op, arg, was, err,
                   held, did, calls, net, served, crashed, spawned, nextId,
                   todo, whoDone, mu, whoEvents, who, cmodes, perms, inp,
                   parsed, channels, chanOut, slept>>

\* lines 1103-1109 and 1112-1128: both handlers are removed on either path;
\* after a timeout the error is returned, otherwise the users
WhowasRemove(t) ==
    /\ Running(t, "ww_remove")
    /\ Remove(Range(who[t]))
    /\ IF wres[t].err = ErrCallbackTimedout
       THEN Finish(t, wres[t])
       ELSE Finish(t, [NoResult EXCEPT !.users = UsersOf(whoEvents[who[t][1]])])
    /\ UNCHANGED <<config, st, tries, events, evClosed, op, arg, was, err,
                   held, did, calls, net, served, crashed, spawned, nextId,
                   todo, whoDone, mu, whoEvents, who, cmodes, perms, inp,
                   parsed, channels, chanOut, slept>>

(***************************************************************************)
(* The handlers of a Whowas call, run by the dispatch for a reply event.   *)
(***************************************************************************)
\* lines 1061-1074: a RPL_WHOWASUSER line for another nickname is skipped;
\* one for ours is appended under mu
whoCb ==
    /\ Running(LoopTask, "cb_next")
    /\ Head(todo).cmd = "RPL_WHOWASUSER"
    /\ LET e == Head(held[LoopTask])
           c == Head(todo).call IN
       IF e.nick # Nick THEN UNCHANGED whoEvents
       ELSE /\ ~mu[c]
            /\ whoEvents' = [whoEvents EXCEPT ![c] = Append(@, e)]
    /\ Proceed
    /\ UNCHANGED <<config, st, tries, events, evClosed, stk, op, arg, was, rv,
                   err, held, did, calls, net, served, crashed, spawned, reg,
                   nextId, whoDone, mu, who, wres, cmodes, perms, inp, parsed,
                   channels, chanOut, slept>>

\* lines 1079-1089: a RPL_ENDOFWHOWAS for another nickname is skipped; for
\* ours mu is taken
whoDoneCb ==
    /\ Running(LoopTask, "cb_next")
    /\ Head(todo).cmd = "RPL_ENDOFWHOWAS"
    /\ LET e == Head(held[LoopTask])
           c == Head(todo).call IN
       IF e.nick # Nick THEN Proceed /\ UNCHANGED mu
       ELSE /\ ~mu[c]
            /\ mu' = [mu EXCEPT ![c] = TRUE]
            /\ Goto(LoopTask, "cb_send")
            /\ UNCHANGED todo
    /\ UNCHANGED <<config, st, tries, events, evClosed, stk, op, arg, was, rv,
                   err, held, did, calls, net, served, crashed, spawned, reg,
                   nextId, whoDone, whoEvents, who, wres, cmodes, perms, inp,
                   parsed, channels, chanOut, slept>>

\* line 1090: whoDone <- struct{}{} on a channel the call has closed panics
whoDoneCbClosed ==
    /\ Running(LoopTask, "cb_send")
    /\ whoDone[Head(todo).call] = "closed"
    /\ crashed' = TRUE
    /\ UNCHANGED <<config, st, tries, events, evClosed, pc, stk, op, arg, was,
                   rv, err, held, did, calls, net, served, spawned, reg,
                   nextId, todo, whoDone, mu, whoEvents, who, wres, cmodes,
                   perms, inp, parsed, channels, chanOut, slept>>

\* line 1091: mu.Unlock()
whoDoneCbUnlock ==
    /\ Running(LoopTask, "cb_unlock")
    /\ mu' = [mu EXCEPT ![Head(todo).call] = FALSE]
    /\ Proceed
    /\ UNCHANGED <<config, st, tries, events, evClosed, stk, op, arg, was, rv,
                   err, held, did, calls, net, served, crashed, spawned, reg,
                   nextId, whoDone, whoEvents, who, wres, cmodes, perms, inp,
                   parsed, channels, chanOut, slept>>

(***************************************************************************)
(* The client with its goroutines and a program that connects,             *)
(* reconnects, quits, stops and sends, on a server that stays silent.      *)
(***************************************************************************)
Lifecycle ==
    \/ \E t \in Tasks : Resume(t)
    \/ \E t \in Tasks : ConnectCheck(t)
    \/ \E t \in Tasks : ConnectDial(t)
    \/ \E t \in Tasks : ConnectMark(t)
    \/ \E t \in Tasks : QuitSet(t)
    \/ \E t \in Tasks : QuitSend(t)
    \/ \E t \in Tasks : QuitClose(t)
    \/ \E t \in Tasks : QuitDefer(t)
    \/ \E t \in Tasks : Stop(t)
    \/ \E t \in Tasks : ReconnectGuard(t)
    \/ \E t \in Tasks : ReconnectSet(t)
    \/ \E t \in Tasks : ReconnectQuitCheck(t)
    \/ \E t \in Tasks : ReconnectNoop(t)
    \/ \E t \in Tasks : ReconnectSleep(t)
    \/ \E t \in Tasks : ReconnectBackoff(t)
    \/ \E t \in Tasks : ReconnectStop(t)
    \/ \E t \in Tasks : ReconnectDone(t)
    \/ \E t \in Tasks : ReconnectFailed(t)
    \/ \E t \in Tasks : ReconnectClose(t)
    \/ \E t \in Readers : readLoopStart(t)
    \/ \E t \in Readers : readLoopCheck(t)
    \/ \E t \in Readers : readLoopFail(t)
    \/ LoopReceive
    \/ RunCallbacks

Step ==
    \/ Lifecycle
    \/ SendCheck(Caller)
    \/ SendEvent(Caller)

\* one goroutine of the program makes the calls, one after the other
Program ==
    \/ CallConnect(Caller)
    \/ CallReconnect(Caller)
    \/ CallQuit(Caller)
    \/ CallStop(Caller)
    \/ CallSend(Caller)
    \/ LoopStart
    \/ NetDown

Next == Program \/ Step

Spec == Init /\ [][Next]_vars

\* every goroutine that can take a step eventually takes one; the program
\* is free to make no further call and to never run Loop
FairSpec == Spec /\ WF_vars(Step)

(***************************************************************************)
(* A session: Connect has succeeded with BaseConfig, readLoop and Loop     *)
(* run, the connection stays up and the server sends WHOWAS replies; the   *)
(* program calls Whowas.                                                   *)
(***************************************************************************)
InitSession ==
    /\ config = BaseConfig
    /\ st = [newState EXCEPT !.connected = TRUE, !.connTime = TRUE,
                             !.conn = "open"]
    /\ pc = [t \in Tasks |-> IF t \in Users THEN "idle"
                             ELSE IF t = LoopTask THEN "lp_select"
                             ELSE "rl_check"]
    /\ spawned = 0
    /\ Idle
    /\ NoTracking

NextSession ==
    \/ CallWhowas(Caller)
    \/ Resume(Caller)
    \/ WhowasCheck(Caller)
    \/ WhowasAddCb(Caller)
    \/ WhowasAddDoneCb(Caller)
    \/ WhowasSend(Caller)
    \/ WhowasDone(Caller)
    \/ WhowasTimedOut(Caller)
    \/ WhowasRemove(Caller)
    \/ \E t \in Readers : readLoopCheck(t)
    \/ \E t \in Readers : readLoopDecode(t)
    \/ \E t \in Readers : readLoopEnqueue(t)
    \/ LoopReceive
    \/ RunCallbacks
    \/ whoCb
    \/ whoDoneCb
    \/ whoDoneCbClosed
    \/ whoDoneCbUnlock

SpecSession == InitSession /\ [][NextSession]_vars

(***************************************************************************)
(* Two goroutines of the program connect and reconnect at the same time.   *)
(***************************************************************************)
NextRace ==
    \/ \E t \in Users : CallConnect(t)
    \/ \E t \in Users : CallReconnect(t)
    \/ LoopStart
    \/ NetDown
    \/ Lifecycle

SpecRace == Init /\ [][NextRace]_vars

(***************************************************************************)
(* Properties.                                                             *)
(***************************************************************************)
\* how often x occurs in the sequence q
Count(q, x) == Cardinality({i \in 1..Len(q) : q[i] = x})

\* q from its last occurrence of x on
FromLast(q, x) ==
    LET i == CHOOSE k \in 1..Len(q) :
                 q[k] = x /\ \A j \in (k + 1)..Len(q) : q[j] # x
    IN SubSeq(q, i, Len(q))

\* C1: of two concurrent calls of Connect only one is ever past the sanity
\* checks with a connection attempt in progress (the other one is refused
\* with ErrAlreadyConnecting before it attempts anything).
C1_OneConnectAtATime ==
    \A t, u \in Users :
        (/\ t # u
         /\ op[t] = "Connect" /\ pc[t] \in {"cn_dial", "cn_spawn"}
         /\ op[u] = "Connect")
        => pc[u] \notin {"cn_dial", "cn_spawn"}

\* C2: when the reconnect sequence that a read failure started gives up, the
\* network being down so that every open of the transport fails, it has
\* opened the transport MaxRetries + 1 times (the first attempt and one per
\* retry).
C2_AttemptsFollowMaxRetries ==
    \A t \in Readers :
        (Exhausted(t) /\ net = "down" /\ config.userConn = "none")
        => Count(did[t], "dial") = config.maxRetries + 1

\* C3: a Reconnect that returns after exhausting its retries has stopped the
\* client: the event queue is closed.
C3_ExhaustionClosesEvents ==
    \A t \in Tasks : pc[t] = "rc_failed" => evClosed

\* a task is in a reconnect sequence, past the guard and the has-quit check
PastGuard(t) ==
    /\ op[t] = "Reconnect"
    /\ \/ pc[t] \in {"rc_retries", "rc_cond", "rc_failed"}
       \/ Len(stk[t]) > 1

\* C4: at most one task at a time is in a reconnect sequence, past the guard.
C4_ReconnectSerialized ==
    \A t, u \in Tasks : (t # u /\ PastGuard(t)) => ~PastGuard(u)

\* the configuration is one Connect must reject
InvalidConfig ==
    \/ config.server = ""
    \/ config.port < MinPort \/ config.port > MaxPort
    \/ ~config.nickOk \/ ~config.userOk

ConfigErrors ==
    {"invalid server specified", "invalid port (21-65535)",
     "invalid nickname or user"}

\* C5: a call of Connect with an invalid configuration has returned a
\* configuration error without having opened a transport, sent an event or
\* started a read loop, and the session state holds no connection.
C5_InvalidConfigFailsFast ==
    \A t \in Users :
        (pc[t] = "ret" /\ op[t] = "Connect" /\ InvalidConfig)
        => /\ rv[t] \in ConfigErrors
           /\ did[t] = <<>>
           /\ spawned = 0
           /\ st.conn = "nil" /\ ~st.connected

C5_Witness ==
    \E t \in Users :
        /\ pc[t] = "ret" /\ op[t] = "Connect"
        /\ config.port > MaxPort
        /\ rv[t] = "invalid port (21-65535)"

\* the handlers in the registry that the Whowas call of t registered
Registered(t) == {h \in reg : h.id \in Range(who[t])}

\* C6: a Whowas call that has returned has left none of its handlers in the
\* registry; if it timed out its error names both handlers and the timeout
\* of two seconds and it returns no user; otherwise it returns the users of
\* the replies collected up to its return, all of them for the nickname
\* asked.  Between the calls the registry is empty.
C6_WhowasDeregisters ==
    /\ \A t \in Users :
        (pc[t] = "ret" /\ op[t] = "Whowas")
        => /\ Registered(t) = {}
           /\ wres[t].err \in {NoErr, ErrCallbackTimedout, ErrInvalidTarget,
                               ErrNotConnected}
           /\ wres[t].err = ErrCallbackTimedout
                => /\ Len(who[t]) = 2
                   /\ wres[t].id = who[t]
                   /\ wres[t].timeout = TimeoutSeconds
                   /\ wres[t].users = <<>>
           /\ wres[t].err = NoErr
                => /\ Len(who[t]) = 2
                   /\ Len(wres[t].users) <= Len(whoEvents[who[t][1]])
                   /\ \A i \in 1..Len(wres[t].users) :
                        /\ wres[t].users[i] = UsersOf(whoEvents[who[t][1]])[i]
                        /\ wres[t].users[i].nick = Nick
    /\ pc[Caller] = "idle" => reg = {}

C6_Witness ==
    \E t \in Users :
        /\ pc[t] = "ret" /\ op[t] = "Whowas"
        /\ wres[t].err = ErrCallbackTimedout
        /\ Len(who[t]) = 2
        /\ reg = {}

\* a task of the program is in a call of Stop or Quit
Cancelling(t) == op[t] \in {"Stop", "Quit"} /\ pc[t] \notin {"ret", "idle"}

\* C7: a call of Stop or Quit eventually returns (unless the process has
\* died of a panic).
C7_StopAndQuitReturn ==
    \A t \in Users : Cancelling(t) ~> (~Cancelling(t) \/ crashed)

\* what a Quit does, in order, closing the transport if the state holds one
QuitOrders ==
    {<<"hasQuit", "QUIT", "close">>, <<"hasQuit", "fail", "close">>,
     <<"hasQuit", "QUIT">>, <<"hasQuit", "fail">>}

\* C8: a Quit that is about to return has set the quitting flag, then sent
\* QUIT (or failed to), then closed the transport, in that order, and
\* nothing else; the step that returns leaves the quitting flag false.
C8_QuitOrder ==
    [][\A t \in Tasks :
         pc[t] = "qt_defer"
         => /\ FromLast(did[t], "hasQuit") \in QuitOrders
            /\ pc'[t] # "qt_defer" => (~st'.hasQuit /\ rv'[t] = NoErr)]_vars

\* a Quit has set the flag, sent QUIT and closed the transport, and the
\* Connect that followed it has succeeded
C8_Witness ==
    \E t \in Tasks :
        /\ \E i \in 1..Len(did[t]) :
             /\ i + 2 < Len(did[t])
             /\ SubSeq(did[t], i, i + 2) = <<"hasQuit", "QUIT", "close">>
        /\ "go readLoop" \in Range(FromLast(did[t], "close"))
        /\ pc[t] = "rc_cond" /\ rv[t] = NoErr
        /\ ~st.hasQuit /\ st.connected

\* C9: a Reconnect that finds the client has quit returns having changed
\* nothing: no field of the session state (the guard flag included) or of
\* the configuration written, nothing closed, no wait, no Connect.
C9_ReconnectAfterQuitNoop ==
    \A t \in Tasks : pc[t] = "rc_noop" => did[t] = <<>>

\* C10: a send operation with a valid argument that was called on a
\* disconnected client, and returns on a disconnected client, has returned
\* ErrNotConnected and has transmitted nothing.
C10_SendsNeedConnection ==
    \A t \in Users :
        (/\ pc[t] = "ret" /\ op[t] \in SendOps /\ arg[t]
         /\ ~was[t] /\ ~IsConnected)
        => (rv[t] = ErrNotConnected /\ did[t] = <<>>)

(***************************************************************************)
(* Properties of the outbound operations and of the handshake.             *)
(***************************************************************************)
\* the operations that take a nickname or channel as their target
Targeted == TargetOps \cup {"Nick", "Topic"}

\* C11: a target-taking operation called with a target that fails the
\* grammar check has returned ErrInvalidTarget and has encoded nothing onto
\* the transport.
C11_InvalidTargetRefused ==
    \A t \in Users :
        (pc[t] = "ret" /\ op[t] \in Targeted /\ ~arg[t])
        => (rv[t] = ErrInvalidTarget /\ did[t] = <<>>)

\* C12: a Part on a valid channel that has sent its event while connected
\* has sent exactly one event, a PART.
C12_PartSendsPart ==
    \A t \in Users :
        (pc[t] = "ret" /\ op[t] = "Part" /\ arg[t] /\ rv[t] = NoErr)
        => did[t] = <<"PART">>

\* what Connect does to open the transport: a dial unless the user gave one
Opened == IF config.userConn = "none" THEN <<"dial">> ELSE <<>>

\* the handshake in its fixed order
Handshake ==
    IF config.password # "" THEN <<"PASS", "NICK", "USER">>
    ELSE <<"NICK", "USER">>

\* the last n entries of q
Suffix(q, n) == SubSeq(q, Len(q) - n + 1, Len(q))

\* C13: a Connect that has sent its handshake has sent PASS (only with a
\* password configured), NICK, USER in that order and each once, and has at
\* that point neither started the read loop nor marked the state connected;
\* a Connect that has returned nil did exactly that and then started the
\* read loop and marked the state; a Connect that has returned an error
\* sent no handshake event after the failure, started no read loop and did
\* not mark the state connected.
C13_HandshakeOrder ==
    /\ \A t \in Tasks :
         pc[t] = "cn_spawn"
         => /\ Len(did[t]) >= Len(Handshake)
            /\ Suffix(did[t], Len(Handshake)) = Handshake
    /\ \A t \in Users :
         (pc[t] \in {"cn_spawn", "ret"} /\ op[t] = "Connect")
         => did[t] \in
              IF pc[t] = "cn_spawn" THEN {Opened \o Handshake}
              ELSE IF rv[t] = NoErr
              THEN {Opened \o Handshake
                      \o <<"go readLoop", "m.Lock", "m.Unlock">>}
              ELSE {<<>>, <<"dial">>, Opened \o <<"fail">>}

\* a Connect with a password configured has returned nil
C13_Witness ==
    /\ config.password # ""
    /\ pc[Caller] = "ret" /\ op[Caller] = "Connect" /\ rv[Caller] = NoErr
    /\ did[Caller] =
         <<"dial", "PASS", "NICK", "USER", "go readLoop", "m.Lock", "m.Unlock">>
    /\ st.connected

\* what the encoder was asked to write: an event's command, or a failed write
Wire ==
    {"PASS", "NICK", "USER", "QUIT", "JOIN", "PART", "PRIVMSG", "NOTICE",
     "TOPIC", "RAW", "WHOWAS", "fail"}

\* the state lock is held at entry i of a history: a Lock not yet followed
\* by its Unlock
LockHeldAt(q, i) ==
    \E j \in 1..(i - 1) :
        /\ q[j] = "m.Lock"
        /\ \A k \in (j + 1)..(i - 1) : q[k] # "m.Unlock"

\* C20: no event is encoded onto the transport while the state lock is
\* held.
C20_NoLockAcrossSend ==
    \A t \in Tasks :
        \A i \in 1..Len(did[t]) :
            did[t][i] \in Wire => ~LockHeldAt(did[t], i)

(***************************************************************************)
(* The mode engine of src/modes.go, lines 9-239.  A Go string is the       *)
(* sequence of its characters; a CMode is a record of its four fields and  *)
(* a CModes the record of its classification tables and of its mode list.  *)
(***************************************************************************)
\* strings.IndexByte: the index from 0 of the first c in s, -1 if none
IndexByte(s, c) ==
    IF \E i \in 1..Len(s) : s[i] = c
    THEN (CHOOSE i \in 1..Len(s) :
             s[i] = c /\ \A j \in 1..(i - 1) : s[j] # c) - 1
    ELSE -1

\* strings.SplitN(s, sep, n) for a one-character separator: at most n
\* substrings, the last one the unsplit remainder
RECURSIVE SplitN(_, _, _)
SplitN(s, sep, n) ==
    IF n = 1 \/ IndexByte(s, sep) = -1 THEN <<s>>
    ELSE LET i == IndexByte(s, sep) + 1
         IN <<SubSeq(s, 1, i - 1)>>
              \o SplitN(SubSeq(s, i + 1, Len(s)), sep, n - 1)

\* lines 221-239: the four parts of channelModes, padded with empty ones
newCModes(channelModes, userPrefixes) ==
    LET split == SplitN(channelModes, ",", 4)
        part(i) == IF i <= Len(split) THEN split[i] ELSE <<>>
    IN [raw |-> channelModes,
        modesListArgs |-> part(1),
        modesArgs |-> part(2),
        modesSetArgs |-> part(3),
        modesNoArgs |-> part(4),
        prefixes |-> userPrefixes,
        modes |-> <<>>]

\* a classification that does not look at the list modes: what the
\* property of C17 has to tell from the real one
hasArgNoList(c, set, mode) ==
    IF Len(c.raw) < 1 THEN <<FALSE, TRUE>>
    ELSE IF IndexByte(c.modesArgs, mode) > -1 THEN <<TRUE, TRUE>>
    ELSE IF IndexByte(c.modesSetArgs, mode) > -1
    THEN (IF set THEN <<TRUE, TRUE>> ELSE <<FALSE, TRUE>>)
    ELSE IF IndexByte(c.prefixes, mode) > -1 THEN <<TRUE, FALSE>>
    ELSE <<FALSE, TRUE>>

\* lines 109-135: <<hasArgs, isSetting>>
hasArg(c, set, mode) ==
    IF Len(c.raw) < 1 THEN <<FALSE, TRUE>>
    ELSE IF IndexByte(c.modesListArgs, mode) > -1 THEN <<TRUE, FALSE>>
    ELSE IF IndexByte(c.modesArgs, mode) > -1 THEN <<TRUE, TRUE>>
    ELSE IF IndexByte(c.modesSetArgs, mode) > -1
    THEN (IF set THEN <<TRUE, TRUE>> ELSE <<FALSE, TRUE>>)
    ELSE IF IndexByte(c.prefixes, mode) > -1 THEN <<TRUE, FALSE>>
    ELSE <<FALSE, TRUE>>

\* lines 189-212: the loop of parse from character i on, in polarity add,
\* with argCount arguments consumed and out built so far
RECURSIVE parseFrom(_, _, _, _, _, _, _)
parseFrom(c, flags, args, i, add, argCount, out) ==
    IF i > Len(flags) THEN out
    ELSE IF flags[i] = "+"
    THEN parseFrom(c, flags, args, i + 1, TRUE, argCount, out)
    ELSE IF flags[i] = "-"
    THEN parseFrom(c, flags, args, i + 1, FALSE, argCount, out)
    ELSE LET h == hasArg(c, add, flags[i])
             takes == h[1] /\ Len(args) >= argCount + 1
             mode == [name |-> flags[i], add |-> add, setting |-> h[2],
                      args |-> IF takes THEN args[argCount + 1] ELSE <<>>]
         IN parseFrom(c, flags, args, i + 1, add,
                      IF takes THEN argCount + 1 ELSE argCount,
                      Append(out, mode))

\* a parse that starts out removing: what the property of C18 has to tell
\* from the real one
parseRemoving(c, flags, args) ==
    parseFrom(c, flags, args, 1, FALSE, 0, <<>>)

\* lines 184-215
parse(c, flags, args) == parseFrom(c, flags, args, 1, TRUE, 0, <<>>)

\* lines 161-177: the second loop of apply from change i on
RECURSIVE applyAppend(_, _, _)
applyAppend(new, modes, i) ==
    IF i > Len(modes) THEN new
    ELSE IF ~modes[i].setting \/ ~modes[i].add
    THEN applyAppend(new, modes, i + 1)
    ELSE IF \E j \in 1..Len(new) : modes[i].name = new[j].name
    THEN applyAppend(new, modes, i + 1)
    ELSE applyAppend(Append(new, modes[i]), modes, i + 1)

\* a first loop that takes the last persistent add of the character, not
\* the first: what the property of C15 has to tell from the real one
applyKeepLast(cur, modes) ==
    [j \in 1..Len(cur) |->
        LET hit(i) == /\ modes[i].setting
                      /\ cur[j].name = modes[i].name
                      /\ modes[i].add
        IN IF \E i \in 1..Len(modes) : hit(i)
           THEN modes[CHOOSE i \in 1..Len(modes) :
                          hit(i) /\ \A k \in (i + 1)..Len(modes) : ~hit(k)]
           ELSE cur[j]]

\* lines 143-159: the first loop of apply: every stored mode, or the first
\* persistent add of the same character that replaces it
applyKeep(cur, modes) ==
    [j \in 1..Len(cur) |->
        LET hit(i) == /\ modes[i].setting
                      /\ cur[j].name = modes[i].name
                      /\ modes[i].add
        IN IF \E i \in 1..Len(modes) : hit(i)
           THEN modes[CHOOSE i \in 1..Len(modes) :
                          hit(i) /\ \A k \in 1..(i - 1) : ~hit(k)]
           ELSE cur[j]]

\* an apply that appends a persistent add without looking for the
\* character in the list: what the property of C14 has to tell from the
\* real one
applyBlind(cur, modes) ==
    cur \o SelectSeq(modes, LAMBDA m : m.setting /\ m.add)

\* an apply that deletes the stored mode a removal names: what the
\* property of C24 has to tell from the real one
applyDeleting(cur, modes) ==
    applyAppend(SelectSeq(applyKeep(cur, modes),
                          LAMBDA m : \A i \in 1..Len(modes) :
                                        modes[i].name = m.name => modes[i].add),
                modes, 1)

\* lines 140-180: the mode list after apply(modes)
apply(cur, modes) == applyAppend(applyKeep(cur, modes), modes, 1)

\* lines 75-83
HasMode(c, mode) == \E i \in 1..Len(c.modes) : c.modes[i].name = mode

\* the concatenation of the strings of a sequence
RECURSIVE Concat(_)
Concat(ss) == IF ss = <<>> THEN <<>> ELSE Head(ss) \o Concat(Tail(ss))

\* a rendering that opens with "-": what the property of C16 has to tell
\* from the real one
StringMinus(c) ==
    (IF Len(c.modes) > 0 THEN <<"-">> ELSE <<>>)
      \o [i \in 1..Len(c.modes) |-> c.modes[i].name]

\* lines 55-72: "+", the mode characters, then every non-empty argument
\* after a space
String(c) ==
    (IF Len(c.modes) > 0 THEN <<"+">> ELSE <<>>)
      \o [i \in 1..Len(c.modes) |-> c.modes[i].name]
      \o Concat([i \in 1..Len(c.modes) |->
                    IF Len(c.modes[i].args) > 0
                    THEN <<" ">> \o c.modes[i].args ELSE <<>>])

(***************************************************************************)
(* User permissions, lines 372-457.                                        *)
(***************************************************************************)
\* the prefix symbols and mode characters of the five grants
OwnerPrefix == "~"
AdminPrefix == "&"
OperatorPrefix == "@"
HalfOperatorPrefix == "%"
VoicePrefix == "+"
ModeOwner == "q"
ModeAdmin == "a"
ModeOperator == "o"
ModeHalfOperator == "h"
ModeVoice == "v"

\* lines 411-417
reset(m) == NoPerms

\* lines 426-439: the loop of set from character i on
RECURSIVE setFrom(_, _, _)
setFrom(m, prefix, i) ==
    IF i > Len(prefix) THEN m
    ELSE LET ch == prefix[i]
             n == CASE ch = OwnerPrefix -> [m EXCEPT !.Owner = TRUE]
                    [] ch = AdminPrefix -> [m EXCEPT !.Admin = TRUE]
                    [] ch = OperatorPrefix -> [m EXCEPT !.Op = TRUE]
                    [] ch = HalfOperatorPrefix -> [m EXCEPT !.HalfOp = TRUE]
                    [] ch = VoicePrefix -> [m EXCEPT !.Voice = TRUE]
                    [] OTHER -> m
         IN setFrom(n, prefix, i + 1)

\* a set that never resets: what the property of C19 has to tell from the
\* real one
setKeep(m, prefix, append) == setFrom(m, prefix, 1)

\* lines 421-440
set(m, prefix, append) ==
    setFrom(IF ~append THEN reset(m) ELSE m, prefix, 1)

\* lines 444-457
setFromMode(m, mode) ==
    CASE mode.name = ModeOwner -> [m EXCEPT !.Owner = mode.add]
      [] mode.name = ModeAdmin -> [m EXCEPT !.Admin = mode.add]
      [] mode.name = ModeOperator -> [m EXCEPT !.Op = mode.add]
      [] mode.name = ModeHalfOperator -> [m EXCEPT !.HalfOp = mode.add]
      [] mode.name = ModeVoice -> [m EXCEPT !.Voice = mode.add]
      [] OTHER -> m

(***************************************************************************)
(* The inputs of the mode engine.                                          *)
(***************************************************************************)
\* longest flag string of a MODE event, and most arguments it carries
MaxFlags == 2
MaxArgs == 2
\* longest flag string given to a single parse
MaxParse == 4
\* longest prefix string given to set
MaxPrefix == 2

\* all sequences over S of length at most n
SeqsUpTo(S, n) == UNION {[1..k -> S] : k \in 0..n}

\* the characters of the flag strings of MODE events, and of the flag
\* strings given to a single parse
FlagChars == {"b", "k", "n", "o", "+", "-"}
ParseChars == {"b", "k", "o", "v", "+", "-"}

\* the argument of a mode; a run of characters without a space is written
\* as one element of the string
Alice == <<"alice">>
Bob == <<"bob">>
ModeArgs == SeqsUpTo({Alice, <<"my", " ", "key">>}, MaxArgs)
ParseArgs == SeqsUpTo({Alice, Bob}, MaxArgs)

\* PREFIX as the server advertises it
PrefixTable == <<"(", "o", "v", ")", "@", "+">>

\* CHANMODES strings: b a list mode, k with an argument always or only
\* when set, n without; fewer than four parts; a character listed twice;
\* the empty string
ChanModes ==
    {<<>>,
     <<"b", ",", "k", ",", ",", "n">>,
     <<"b", ",", ",", "k", ",", "n">>,
     <<"b", ",", "k">>,
     <<"b", ",", "k", ",", ",", "n", "v">>,
     <<"b", "n", ",", "k", ",", ",", "n">>}

\* the mode sets of a channel that has just been created
ModeSets == {newCModes(cm, PrefixTable) : cm \in ChanModes}

\* the nickname of the tracked user
TrackedNick == Alice

\* the client is connected and its dispatch loop waits for an event
Dispatching ==
    /\ config = BaseConfig
    /\ st = [newState EXCEPT !.connected = TRUE, !.connTime = TRUE,
                             !.conn = "open"]
    /\ pc = [t \in Tasks |-> IF t \in Users THEN "idle"
                             ELSE IF t = LoopTask THEN "lp_select"
                             ELSE "off"]
    /\ spawned = 0
    /\ Idle

(***************************************************************************)
(* handleMODE, lines 305-346, for a MODE event on the tracked channel.     *)
(***************************************************************************)
\* lines 334-343: the grants of the users the transient modes name
RECURSIVE permsFrom(_, _, _)
permsFrom(m, modes, i) ==
    IF i > Len(modes) THEN m
    ELSE IF modes[i].setting \/ Len(modes[i].args) = 0
    THEN permsFrom(m, modes, i + 1)
    ELSE permsFrom(IF modes[i].args = TrackedNick
                   THEN setFromMode(m, modes[i]) ELSE m, modes, i + 1)

\* lines 324-345: parse, apply, the grants; modes is the handler's local
handleMODE(flags, args) ==
    /\ Running(LoopTask, "lp_select")
    /\ Goto(LoopTask, "hm_ret")
    /\ LET modes == parse(cmodes, flags, args) IN
         /\ parsed' = modes
         /\ cmodes' = [cmodes EXCEPT !.modes = apply(@, modes)]
         /\ perms' = permsFrom(perms, modes, 1)
    /\ UNCHANGED <<config, st, tries, events, evClosed, stk, op, arg, was, rv,
                   err, held, did, calls, net, served, crashed, spawned, reg,
                   nextId, todo, whoDone, mu, whoEvents, who, wres, inp,
                   channels, chanOut, slept>>

\* line 346: the handler returns to the dispatch loop
handleMODEReturn ==
    /\ Running(LoopTask, "hm_ret")
    /\ Goto(LoopTask, "lp_select")
    /\ parsed' = <<>>
    /\ UNCHANGED <<config, st, tries, events, evClosed, stk, op, arg, was, rv,
                   err, held, did, calls, net, served, crashed, spawned, reg,
                   nextId, todo, whoDone, mu, whoEvents, who, wres, cmodes,
                   perms, inp, channels, chanOut, slept>>

InitModes ==
    /\ Dispatching
    /\ cmodes \in ModeSets
    /\ perms = NoPerms
    /\ inp = NoInput
    /\ parsed = <<>>
    /\ channels = {"#a"}

NextModes ==
    \/ \E flags \in SeqsUpTo(FlagChars, MaxFlags), args \in ModeArgs :
         handleMODE(flags, args)
    \/ handleMODEReturn

SpecModes == InitModes /\ [][NextModes]_vars

\* one MODE event for a channel that has just been created: inp is the
\* event the dispatch loop has in hand
ParseSets ==
    {newCModes(cm, PrefixTable) :
        cm \in {<<"b", ",", "k", ",", ",", "n">>,
                <<"b", ",", ",", "k", ",", "n">>}}

InitParse ==
    /\ Dispatching
    /\ cmodes \in ParseSets
    /\ perms = NoPerms
    /\ inp \in [flags : SeqsUpTo(ParseChars, MaxParse), args : ParseArgs]
    /\ parsed = <<>>
    /\ channels = {"#a"}

NextParse == handleMODE(inp.flags, inp.args)

SpecParse == InitParse /\ [][NextParse]_vars

(***************************************************************************)
(* UserPerms.set on the tracked user.                                      *)
(***************************************************************************)
PrefixChars ==
    {OwnerPrefix, AdminPrefix, OperatorPrefix, HalfOperatorPrefix,
     VoicePrefix, "x"}

PermsSet(prefix, append) ==
    /\ inp' = [prefix |-> prefix, append |-> append, before |-> perms]
    /\ perms' = set(perms, prefix, append)
    /\ UNCHANGED <<config, st, tries, events, evClosed, pc, stk, op, arg, was,
                   rv, err, held, did, calls, net, served, crashed, spawned,
                   reg, nextId, todo, whoDone, mu, whoEvents, who, wres,
                   cmodes, parsed, channels, chanOut, slept>>

InitPerms ==
    /\ Dispatching
    /\ cmodes = NoModes
    /\ perms = NoPerms
    /\ inp = [prefix |-> <<>>, append |-> FALSE, before |-> NoPerms]
    /\ parsed = <<>>
    /\ channels = {"#a"}

NextPerms ==
    \E prefix \in SeqsUpTo(PrefixChars, MaxPrefix), append \in BOOLEAN :
        PermsSet(prefix, append)

SpecPerms == InitPerms /\ [][NextPerms]_vars

(***************************************************************************)
(* Properties of the mode engine.                                          *)
(***************************************************************************)
\* the mode characters of a list of modes
Names(modes) == {modes[i].name : i \in 1..Len(modes)}

\* the handler has parsed and applied the event in hand
Handled == pc[LoopTask] = "hm_ret"

\* C14: the mode characters of the stored mode list are pairwise distinct.
C14_DistinctModes ==
    \A i, j \in 1..Len(cmodes.modes) :
        i # j => cmodes.modes[i].name # cmodes.modes[j].name

\* a change list naming a persistent character twice has been applied to a
\* list that held another mode
C14_Witness ==
    /\ Handled
    /\ Len(cmodes.modes) >= 2
    /\ \E i, j \in 1..Len(parsed) :
         /\ i < j
         /\ parsed[i].name = parsed[j].name
         /\ parsed[i].setting /\ parsed[i].add
         /\ parsed[j].setting /\ parsed[j].add

\* C15: applying once more the change list that has just been applied
\* leaves the mode list as it is: same entries, arguments and order.
C15_ApplyIdempotent ==
    Handled => apply(cmodes.modes, parsed) = cmodes.modes

\* two persistent adds of different characters have been applied, one with
\* an argument
C15_Witness ==
    /\ Handled
    /\ Len(parsed) = 2
    /\ \A i \in 1..2 : parsed[i].setting /\ parsed[i].add
    /\ parsed[1].name # parsed[2].name
    /\ \E i \in 1..2 : parsed[i].args # <<>>
    /\ Len(cmodes.modes) = 2

\* the mode list that results from rendering c, splitting the text at the
\* spaces into flags and arguments, and parsing and applying those on a
\* fresh set with the tables of c
RoundTrip(c) ==
    LET fields == SplitN(String(c), " ", -1)
        fresh == newCModes(c.raw, c.prefixes)
    IN apply(fresh.modes, parse(fresh, Head(fields), Tail(fields)))

\* C16: the round trip of the stored mode set gives the same set of mode
\* characters.
C16_RoundTrip == Names(RoundTrip(cmodes)) = Names(cmodes.modes)

\* the stored set holds two modes, one with an argument that has a space
C16_Witness ==
    /\ Len(cmodes.modes) = 2
    /\ \E i \in 1..2 : IndexByte(cmodes.modes[i].args, " ") > -1
    /\ Len(RoundTrip(cmodes)) = 2

\* the four parts of a classification string "A,B,C,D"
Parts(c) == SplitN(c.raw, ",", 4)
InPart(c, k, ch) == IndexByte(Parts(c)[k], ch) > -1

Letters == {"b", "k", "n", "o", "v"}

\* C17 as it is stated: once a MODE event has been parsed, every character
\* of A has an argument and is not persistent, every character of D has
\* none and is persistent.
C17_AsStated ==
    (Handled /\ Len(Parts(cmodes)) = 4)
    => \A ch \in Letters :
         /\ InPart(cmodes, 1, ch) => hasArg(cmodes, TRUE, ch) = <<TRUE, FALSE>>
         /\ InPart(cmodes, 4, ch) => hasArg(cmodes, TRUE, ch) = <<FALSE, TRUE>>

\* C17: once a MODE event has been parsed with a classification string
\* "A,B,C,D", every character of A has an argument and is not persistent;
\* every character of D that is in none of
\* A, B and C and is not a character of the prefix table has no argument
\* and is persistent.
C17_Classification ==
    (Handled /\ Len(Parts(cmodes)) = 4)
    => \A ch \in Letters :
         /\ InPart(cmodes, 1, ch) => hasArg(cmodes, TRUE, ch) = <<TRUE, FALSE>>
         /\ (/\ InPart(cmodes, 4, ch)
             /\ \A k \in 1..3 : ~InPart(cmodes, k, ch)
             /\ IndexByte(cmodes.prefixes, ch) = -1)
            => hasArg(cmodes, TRUE, ch) = <<FALSE, TRUE>>

\* a list mode and a mode of D alone have been parsed as adds
C17_Witness ==
    /\ Handled
    /\ Len(Parts(cmodes)) = 4
    /\ Len(parsed) = 2
    /\ InPart(cmodes, 1, parsed[1].name) /\ parsed[1].add
    /\ ~parsed[1].setting /\ parsed[1].args # <<>>
    /\ InPart(cmodes, 4, parsed[2].name) /\ parsed[2].add
    /\ ~InPart(cmodes, 1, parsed[2].name)
    /\ parsed[2].setting /\ parsed[2].args = <<>>

\* C18: parse has returned one mode per character of the flags other than
\* "+" and "-", in order, each with the polarity of the nearest sign before
\* it (add if none) and the persistence of its classification; the k-th of
\* the modes that take an argument has the k-th argument if there is one,
\* every other mode has an empty argument.
C18_ParseByPosition ==
    Handled
    => LET flags == inp.flags
           \* the positions of the mode characters, in order
           pos == SelectSeq([i \in 1..Len(flags) |-> i],
                            LAMBDA i : flags[i] \notin {"+", "-"})
           \* the polarity in force at position i
           AddAt(i) ==
               LET signs == {j \in 1..(i - 1) : flags[j] \in {"+", "-"}}
               IN IF signs = {} THEN TRUE
                  ELSE flags[CHOOSE j \in signs : \A k \in signs : k <= j]
                         = "+"
           \* the mode at position i takes an argument
           TakesArg(i) == hasArg(cmodes, AddAt(i), flags[i])[1]
           \* how many modes before position i take an argument
           ArgsBefore(i) ==
               Cardinality({j \in 1..(i - 1) :
                               flags[j] \notin {"+", "-"} /\ TakesArg(j)})
       IN /\ Len(parsed) = Len(pos)
          /\ \A n \in 1..Len(pos) :
               LET i == pos[n]
                   k == ArgsBefore(i) + 1
               IN /\ parsed[n].name = flags[i]
                  /\ parsed[n].add = AddAt(i)
                  /\ parsed[n].setting = hasArg(cmodes, AddAt(i), flags[i])[2]
                  /\ parsed[n].args =
                       IF TakesArg(i) /\ k <= Len(inp.args)
                       THEN inp.args[k] ELSE <<>>

\* parse("+o-v", ["alice", "bob"]) has returned +o alice and -v bob, both
\* not persistent
C18_Witness ==
    /\ Handled
    /\ inp = [flags |-> <<"+", "o", "-", "v">>, args |-> <<Alice, Bob>>]
    /\ parsed = <<[name |-> "o", add |-> TRUE, setting |-> FALSE,
                   args |-> Alice],
                  [name |-> "v", add |-> FALSE, setting |-> FALSE,
                   args |-> Bob]>>

\* C19: after set(prefix, append) with append false, a grant is true
\* exactly when its symbol occurs in prefix; with append true, every grant
\* that was true before the call is still true.
C19_SetFromPrefix ==
    LET Grants == {"Owner", "Admin", "Op", "HalfOp", "Voice"}
        PrefixOf(g) ==
            CASE g = "Owner" -> OwnerPrefix
              [] g = "Admin" -> AdminPrefix
              [] g = "Op" -> OperatorPrefix
              [] g = "HalfOp" -> HalfOperatorPrefix
              [] g = "Voice" -> VoicePrefix
    IN /\ ~inp.append
            => \A g \in Grants :
                 perms[g] = (IndexByte(inp.prefix, PrefixOf(g)) > -1)
       /\ inp.append => \A g \in Grants : inp.before[g] => perms[g]

\* set("@+", false) on a user that was owner leaves operator and voice
C19_Witness ==
    /\ inp.prefix = <<"@", "+">> /\ ~inp.append
    /\ inp.before.Owner
    /\ perms = [NoPerms EXCEPT !.Op = TRUE, !.Voice = TRUE]

(***************************************************************************)
(* Client.Channels, lines 900-916, with tracking enabled, next to the      *)
(* handlers that track the channels the client is in.                      *)
(***************************************************************************)
\* the tracking handlers add a channel to c.state.channels when the client
\* joins it and delete it when the client leaves, under c.state.m.Lock()
createChannel(ch) ==
    /\ Running(LoopTask, "lp_select")
    /\ ch \notin channels
    /\ channels' = channels \cup {ch}
    /\ UNCHANGED <<config, st, tries, events, evClosed, pc, stk, op, arg, was,
                   rv, err, held, did, calls, net, served, crashed, spawned,
                   reg, nextId, todo, whoDone, mu, whoEvents, who, wres,
                   cmodes, perms, inp, parsed, chanOut, slept>>

deleteChannel(ch) ==
    /\ Running(LoopTask, "lp_select")
    /\ ch \in channels
    /\ channels' = channels \ {ch}
    /\ UNCHANGED <<config, st, tries, events, evClosed, pc, stk, op, arg, was,
                   rv, err, held, did, calls, net, served, crashed, spawned,
                   reg, nextId, todo, whoDone, mu, whoEvents, who, wres,
                   cmodes, perms, inp, parsed, chanOut, slept>>

CallChannels(t) == Begin(t, "Channels", "ch_make", TRUE)

\* line 905: make([]string, len(c.state.channels)), before the lock is
\* taken: a slice of empty strings as long as the table is now
ChannelsMake(t) ==
    /\ Running(t, "ch_make")
    /\ chanOut' = [chanOut EXCEPT ![t] =
                      [i \in 1..Cardinality(channels) |-> ""]]
    /\ Goto(t, "ch_range")
    /\ UNCHANGED <<config, st, tries, events, evClosed, stk, op, arg, was, rv,
                   err, held, did, calls, net, served, crashed, spawned, reg,
                   nextId, todo, whoDone, mu, whoEvents, who, wres, cmodes,
                   perms, inp, parsed, channels, slept>>

\* lines 907-915: under RLock the keys of the table as it is now are
\* written to the slice from index 0, in the order the map yields them; a
\* write past the end of the slice panics
ChannelsRange(t) ==
    /\ Running(t, "ch_range")
    /\ IF Cardinality(channels) > Len(chanOut[t])
       THEN crashed' = TRUE /\ UNCHANGED <<chanOut, pc, stk, rv>>
       ELSE /\ \E keys \in [1..Cardinality(channels) -> channels] :
                 /\ \A i, j \in DOMAIN keys : keys[i] = keys[j] => i = j
                 /\ chanOut' = [chanOut EXCEPT ![t] =
                       [i \in DOMAIN @ |->
                           IF i <= Len(keys) THEN keys[i] ELSE @[i]]]
            /\ Return(t, NoErr)
            /\ UNCHANGED crashed
    /\ UNCHANGED <<config, st, tries, events, evClosed, op, arg, was, err,
                   held, did, calls, net, served, spawned, reg, nextId, todo,
                   whoDone, mu, whoEvents, who, wres, cmodes, perms, inp,
                   parsed, channels, slept>>

\* the program calls Channels while the handlers run and another of its
\* goroutines connects again
NextChannels ==
    \/ CallChannels(Caller)
    \/ ChannelsMake(Caller)
    \/ ChannelsRange(Caller)
    \/ Resume(Caller)
    \/ \E ch \in {"#a", "#b"} : createChannel(ch)
    \/ \E ch \in {"#a", "#b"} : deleteChannel(ch)
    \/ \E t \in Users \ {Caller} : CallConnect(t)
    \/ \E t \in Users \ {Caller} : ConnectCheck(t)
    \/ \E t \in Users \ {Caller} : ConnectDial(t)
    \/ \E t \in Users \ {Caller} : ConnectMark(t)
    \/ \E t \in Users \ {Caller} : Resume(t)

SpecChannels == InitSession /\ [][NextChannels]_vars

\* C21: a Channels call completes without fault and returns exactly the
\* keys the channel table holds at the instant it is read under the lock:
\* every key once, and nothing else.
C21_ChannelsSnapshot ==
    [][(op[Caller] = "Channels" /\ pc[Caller] = "ch_range"
          /\ (pc'[Caller] # "ch_range" \/ crashed'))
       => (/\ ~crashed'
           /\ Len(chanOut'[Caller]) = Cardinality(channels)
           /\ Range(chanOut'[Caller]) = channels)]_vars

(***************************************************************************)
(* Properties of the reconnect delays, of the classification and of the    *)
(* merge.                                                                  *)
(***************************************************************************)
\* C22: within one Reconnect no delay slept is below the floor, and every
\* delay is strictly greater than the one slept before it.
C22_BackoffGrows ==
    \A t \in Tasks :
      \A i \in 1..Len(slept[t]) :
        /\ slept[t][i] >= MinReconnectDelay
        /\ i > 1 => slept[t][i] > slept[t][i - 1]

\* C23: once a MODE event has been parsed, whatever the classification
\* string: a character of the prefix table that is in none of the four
\* buckets has an argument and is not persistent, for both polarities; a
\* character of the arg-on-set-only bucket has an argument exactly when
\* added and is persistent; a character in no bucket and not in the prefix
\* table has no argument and is persistent.
C23_PrefixAndFallback ==
    Handled
    => \A ch \in Letters :
         LET in(bucket) == IndexByte(bucket, ch) > -1
             none == /\ ~in(cmodes.modesListArgs) /\ ~in(cmodes.modesArgs)
                     /\ ~in(cmodes.modesSetArgs) /\ ~in(cmodes.modesNoArgs)
         IN /\ (in(cmodes.prefixes) /\ none)
                  => \A add \in BOOLEAN :
                       hasArg(cmodes, add, ch) = <<TRUE, FALSE>>
            /\ in(cmodes.modesSetArgs)
                  => \A add \in BOOLEAN :
                       hasArg(cmodes, add, ch) = <<add, TRUE>>
            /\ (none /\ ~in(cmodes.prefixes))
                  => \A add \in BOOLEAN :
                       hasArg(cmodes, add, ch) = <<FALSE, TRUE>>

\* C24: the apply of a MODE event writes only persistent adds into the
\* mode list and deletes nothing: without a persistent add among the
\* changes the list is as it was; every stored character keeps its
\* position (HasMode stays true), its entry being the old one or a
\* persistent add of the changes.
C24_ApplyKeepsStored ==
    [][(pc[LoopTask] = "lp_select" /\ pc'[LoopTask] = "hm_ret")
       => LET old == cmodes.modes
              new == cmodes'.modes
              adds == {m \in Range(parsed') : m.setting /\ m.add}
          IN /\ adds = {} => new = old
             /\ Len(new) >= Len(old)
             /\ \A j \in 1..Len(old) :
                  /\ new[j].name = old[j].name
                  /\ new[j] = old[j] \/ new[j] \in adds
                  /\ HasMode(cmodes', old[j].name)
             /\ \A j \in 1..Len(new) : new[j] \in Range(old) \cup adds]_vars

\* a MODE -k has been handled and the stored k, with its key, is still in
\* the list
C24_Witness ==
    /\ Handled
    /\ \E i \in 1..Len(parsed) :
         parsed[i].name = "k" /\ ~parsed[i].add /\ parsed[i].setting
    /\ \A i \in 1..Len(parsed) : ~(parsed[i].setting /\ parsed[i].add)
    /\ HasMode(cmodes, "k")
    /\ cmodes.modes[1] = [name |-> "k", add |-> TRUE, setting |-> TRUE,
                          args |-> Alice]

(***************************************************************************)
(* Properties of the WHOWAS wait, of the event queue and of the connected  *)
(* flag.                                                                   *)
(***************************************************************************)
\* C26: a completion handler that has taken its mutex and is at its send
\* on whoDone can complete it: the channel is not closed, and the Whowas
\* call it belongs to has not left its select, so that the send is
\* received, the mutex released and the dispatch goes on.
C26_CompletionHandlerReturns ==
    pc[LoopTask] = "cb_send"
    => LET c == Head(todo).call IN
       /\ whoDone[c] = "open"
       /\ \E t \in Users :
            /\ who[t] # <<>> /\ who[t][1] = c
            /\ pc[t] \in {"ww_send", "ww_wait"}

\* C27: the event queue is closed at most once, nothing is enqueued after
\* the close and the dispatch loop runs no callbacks for what a closed
\* queue yields: no goroutine stands at close(c.Events) or at the send on
\* c.Events with the queue closed, and Loop never has the nil event of a
\* closed queue in hand for RunCallbacks.
C27_QueueClosedOnce ==
    /\ \A t \in Tasks :
         evClosed => ~(Running(t, "rc_retries") /\ ~(config.maxRetries > 0))
    /\ \A t \in Tasks : evClosed => ~Running(t, "rl_enqueue")
    /\ ~(Running(LoopTask, "lp_run") /\ held[LoopTask] = <<NilEvent>>)

\* C28: whenever IsConnected() reports true the transport is open and the
\* connection time is set.
C28_ConnectedMeansOpen ==
    IsConnected => st.conn = "open" /\ st.connTime

(***************************************************************************)
(* The PREFIX value of the server, lines 257-300 and 358-367.              *)
(***************************************************************************)
\* longest PREFIX value the server advertises
MaxRaw == 4

\* the built-in prefix table
DefaultPrefixes == <<"(", "o", "v", ")", "@", "+">>

\* lines 258-285: a leading "(", and as many characters other than ")"
\* before the first ")" as after it
isValidUserPrefix(raw) ==
    IF Len(raw) < 1 THEN FALSE
    ELSE IF raw[1] # "(" THEN FALSE
    ELSE LET passedKeys(i) == \E j \in 2..(i - 1) : raw[j] = ")"
             keys == {i \in 2..Len(raw) : raw[i] # ")" /\ ~passedKeys(i)}
             rep == {i \in 2..Len(raw) : raw[i] # ")" /\ passedKeys(i)}
         IN Cardinality(keys) = Cardinality(rep)

\* lines 289-300: <<modes, prefixes>>
parsePrefixes(raw) ==
    IF ~isValidUserPrefix(raw) THEN <<<<>>, <<>>>>
    ELSE LET i == IndexByte(raw, ")")
         IN IF i < 1 THEN <<<<>>, <<>>>>
            ELSE <<SubSeq(raw, 2, i), SubSeq(raw, i + 2, Len(raw))>>

\* lines 361-367: ok says that serverOptions has a PREFIX entry
userPrefixes(ok, prefix) ==
    IF ok /\ isValidUserPrefix(prefix) THEN prefix ELSE DefaultPrefixes

\* the server advertises PREFIX=raw: inp is the entry of serverOptions
\* with what userPrefixes and parsePrefixes make of it
ServerPrefix(raw) ==
    /\ Running(LoopTask, "lp_select")
    /\ inp' = [raw |-> raw, table |-> userPrefixes(TRUE, raw),
               parsed |-> parsePrefixes(raw)]
    /\ UNCHANGED <<config, st, tries, events, evClosed, pc, stk, op, arg, was,
                   rv, err, held, did, calls, net, served, crashed, spawned,
                   reg, nextId, todo, whoDone, mu, whoEvents, who, wres,
                   cmodes, perms, parsed, channels, chanOut, slept>>

InitPrefix ==
    /\ Dispatching
    /\ cmodes = NoModes
    /\ perms = NoPerms
    /\ inp = [raw |-> <<>>, table |-> userPrefixes(FALSE, <<>>),
              parsed |-> parsePrefixes(<<>>)]
    /\ parsed = <<>>
    /\ channels = {}

NextPrefix ==
    \E raw \in SeqsUpTo({"(", ")", "o", "@"}, MaxRaw) : ServerPrefix(raw)

SpecPrefix == InitPrefix /\ [][NextPrefix]_vars

\* C25: a PREFIX value that is not "(", mode characters, ")", as many
\* symbols, is treated as absent: userPrefixes gives the built-in table
\* and parsePrefixes gives nothing; and the mode string and the symbol
\* string of a non-empty result of parsePrefixes are equally long and
\* hold no parenthesis.
C25_PrefixValidated ==
    LET raw == inp.raw
        modes == inp.parsed[1]
        symbols == inp.parsed[2]
        delimited ==
            \E i \in 2..Len(raw) :
               /\ raw[1] = "(" /\ raw[i] = ")"
               /\ \A j \in 2..Len(raw) : j # i => raw[j] \notin {"(", ")"}
               /\ i - 2 = Len(raw) - i
    IN /\ ~delimited
            => inp.table = DefaultPrefixes /\ inp.parsed = <<<<>>, <<>>>>
       /\ inp.parsed # <<<<>>, <<>>>>
            => /\ Len(modes) = Len(symbols)
               /\ \A ch \in Range(modes) \cup Range(symbols) :
                    ch \notin {"(", ")"}

(***************************************************************************)
(* A deliberate Quit: the client is connected, its readLoop waits for the  *)
(* silent server on a network that stays up, and the program calls Quit;   *)
(* the only read error is the one of the transport Quit has closed.        *)
(***************************************************************************)
NextQuit ==
    \/ CallQuit(Caller)
    \/ \E t \in Tasks : QuitSet(t)
    \/ \E t \in Tasks : QuitSend(t)
    \/ \E t \in Tasks : QuitClose(t)
    \/ \E t \in Tasks : QuitDefer(t)
    \/ \E t \in Tasks : Resume(t)
    \/ \E t \in Readers : readLoopStart(t)
    \/ \E t \in Readers : readLoopCheck(t)
    \/ \E t \in Readers : st.conn = "closed" /\ readLoopFail(t)
    \/ \E t \in Readers : ReconnectGuard(t)
    \/ \E t \in Readers : ReconnectSet(t)
    \/ \E t \in Readers : ReconnectQuitCheck(t)
    \/ \E t \in Readers : ReconnectNoop(t)
    \/ \E t \in Readers : ReconnectSleep(t)
    \/ \E t \in Readers : ReconnectDone(t)
    \/ \E t \in Readers : ConnectCheck(t)
    \/ \E t \in Readers : ConnectDial(t)
    \/ \E t \in Readers : ConnectMark(t)

SpecQuit == InitSession /\ [][NextQuit]_vars

\* C29: the readLoop that meets the read error of a transport Quit has
\* closed exits without sleeping the reconnect delay, without calling
\* Connect, without closing the event queue and without signalling Stop.
C29_QuitNoReconnect ==
    \A t \in Readers :
      /\ Range(did[t]) \cap {"sleep", "Connect", "close Events"} = {}
      /\ pc[t] # "sp_send"

====
